---- MODULE Spec2Model ----
(***************************************************************************)
(* A model of the hairdresser data generator (src/src/generate_data.py)    *)
(* and of the parsing steps of src/src/exercises.py that consume its       *)
(* output string.                                                          *)
(*                                                                         *)
(* Text is modelled as sequences of one-character strings, so that         *)
(* formatting, joining, splitting and stripping are computed character by  *)
(* character.  A calendar date is the number of days since 2024-01-01.     *)
(* Optional values are sequences of length 0 (None) or 1.                  *)
(***************************************************************************)
EXTENDS Integers, Sequences, FiniteSets, TLC

VARIABLES
    customer_specs,   \* the caller's CustomerSpecs object (None or one record)
    order_specs,      \* the caller's OrderSpecs object (None or one record)
    pc,               \* control position of the running call
    entry,            \* the function the caller invoked
    seed,             \* the seed argument of the running call
    rng,              \* state of the process-wide `random` generator
    faker_shared,     \* state of the generator shared by Faker instances
    fake_inst,        \* the `fake` object's own generator (None: uses the shared one)
    tape,             \* the values the generators have produced, per (stream, position)
    events,           \* seedings and draws of `random` during the running call
    i_cust,           \* iterations of the customer loop done
    data_rows,        \* create_customer_data: data_rows
    names_generated,  \* create_customer_data: names_generated
    fabricated,       \* per data row, the full name as fabricated (before corruption)
    collisions,       \* iterations whose fabricated name was already generated
    df_customers,     \* create_customer_data's return value (rows)
    customer_names,   \* create_order_data: customer_names
    current_date,     \* create_order_data: current_date
    k_day,            \* iterations of the inner order loop done for current_date
    not_chosen_names, \* create_order_data: not_chosen_names
    new_rows,         \* create_order_data: new_rows
    order_rows,       \* create_order_data: data_rows
    ord_draws,        \* random draws made by the running create_order_data call
    df_orders,        \* create_order_data's return value (None or one row sequence)
    df_customers_orders, \* main: df_customers_orders after the sort of line 187
    result,           \* main's return value (None or one string)
    error,            \* the exception that ended the call, and the function that raised it
    prev,             \* the previous call of main (None or [seed, cs, os, result])
    script_pc,        \* exercises.py: the exercise the script runs next
    orders_casted,    \* exercises.py: orders_casted (prices in MoneyUnit-ths of a euro)
    original_prices,  \* the prices of orders_casted as Exercise 1.4 cast them
    total_revenue,    \* exercises.py: total_revenue (None until assigned)
    total_revenue_inflation_correction, \* exercises.py, Exercise 4.6
    total_revenue_discount,             \* exercises.py, Exercise 4.8
    total_revenue_discount_no_wavy      \* exercises.py, Exercise 4.10

vars == <<customer_specs, order_specs, pc, entry, seed, rng, faker_shared, fake_inst,
          tape, events, i_cust, data_rows, names_generated, fabricated, collisions,
          df_customers,
          customer_names, current_date, k_day, not_chosen_names, new_rows,
          order_rows, ord_draws, df_orders, df_customers_orders, result, error, prev,
          script_pc, orders_casted, original_prices, total_revenue,
          total_revenue_inflation_correction, total_revenue_discount,
          total_revenue_discount_no_wavy>>

None == <<>>
Some(x) == <<x>>

Min(a, b) == IF a < b THEN a ELSE b

(***************************************************************************)
(* Bounds of the model.                                                    *)
(***************************************************************************)
\* Largest num_customers the caller passes to CustomerSpecs.
MaxCustomers == 2
\* Largest number of days between start_date and end_date the caller passes.
MaxSpan == 1
\* Number of distinct values one random draw can take.
DrawMax == 3
\* Number of catalog entries, from the first, that the hairstyle draw can return.
StylesDrawn == 2
\* Resolution of random.random(): it returns k / FloatSteps, k in 0..FloatSteps-1.
FloatSteps == 3
\* Largest num_customers when main is run twice.
RerunMaxCustomers == 1

(***************************************************************************)
(* Program constants.                                                      *)
(***************************************************************************)
GENDERS == <<"M", "F", "X">>
HAIRSTYLES == <<
    [hairstyle |-> <<"A", "f", "r", "o">>, costs |-> 47],
    [hairstyle |-> <<"B", "a", "l", "d">>, costs |-> 20],
    [hairstyle |-> <<"B", "r", "a", "i", "d", "e", "d">>, costs |-> 42],
    [hairstyle |-> <<"B", "u", "z", "z">>, costs |-> 50],
    [hairstyle |-> <<"C", "r", "e", "w">>, costs |-> 37],
    [hairstyle |-> <<"D", "i", "p", "D", "y", "e", "d">>, costs |-> 35],
    [hairstyle |-> <<"M", "o", "h", "a", "w", "k">>, costs |-> 40],
    [hairstyle |-> <<"P", "o", "m", "p", "a", "d", "o", "u", "r">>, costs |-> 38],
    [hairstyle |-> <<"U", "n", "d", "e", "r", "c", "u", "t">>, costs |-> 45],
    [hairstyle |-> <<"W", "a", "v", "y">>, costs |-> 33] >>

\* Characters in code point order (the order polars and Python compare strings by).
Alphabet == <<
    " ", ",", "-", "0", "1", "2", "3", "4", "5", "6", "7", "8", "9",
    ";", "A", "B", "C", "D", "E", "F", "G", "H", "I", "J", "K", "L",
    "M", "N", "O", "P", "Q", "R", "S", "T", "U", "V", "W", "X", "Y",
    "Z", "a", "b", "c", "d", "e", "f", "g", "h", "i", "j", "k", "l",
    "m", "n", "o", "p", "q", "r", "s", "t", "u", "v", "w", "x", "y",
    "z" >>

Ord(c) == CHOOSE k \in 1..Len(Alphabet) : Alphabet[k] = c

WeekdayNames == <<
    <<"M", "o", "n", "d", "a", "y">>,
    <<"T", "u", "e", "s", "d", "a", "y">>,
    <<"W", "e", "d", "n", "e", "s", "d", "a", "y">>,
    <<"T", "h", "u", "r", "s", "d", "a", "y">>,
    <<"F", "r", "i", "d", "a", "y">>,
    <<"S", "a", "t", "u", "r", "d", "a", "y">>,
    <<"S", "u", "n", "d", "a", "y">> >>

MonthNames == <<
    <<"J", "a", "n", "u", "a", "r", "y">>,
    <<"F", "e", "b", "r", "u", "a", "r", "y">>,
    <<"M", "a", "r", "c", "h">>,
    <<"A", "p", "r", "i", "l">>,
    <<"M", "a", "y">>,
    <<"J", "u", "n", "e">>,
    <<"J", "u", "l", "y">>,
    <<"A", "u", "g", "u", "s", "t">>,
    <<"S", "e", "p", "t", "e", "m", "b", "e", "r">>,
    <<"O", "c", "t", "o", "b", "e", "r">>,
    <<"N", "o", "v", "e", "m", "b", "e", "r">>,
    <<"D", "e", "c", "e", "m", "b", "e", "r">> >>

DigitChars == <<"0", "1", "2", "3", "4", "5", "6", "7", "8", "9">>

\* Days per month of 2024, the year of the default OrderSpecs dates.
MonthLengths == <<31, 29, 31, 30, 31, 30, 31, 31, 30, 31, 30, 31>>

\* The year of the epoch 2024-01-01 that dates are counted from.
EpochYear == 2024

(***************************************************************************)
(* Text: str(int), comparison, str.split, str.strip, str.join.             *)
(***************************************************************************)
RECURSIVE NatToStr(_)
NatToStr(n) ==
    IF n < 10 THEN <<DigitChars[n + 1]>>
    ELSE NatToStr(n \div 10) \o <<DigitChars[(n % 10) + 1]>>

\* str(n) of a Python int.
IntToStr(n) == IF n < 0 THEN <<"-">> \o NatToStr(0 - n) ELSE NatToStr(n)

\* a < b for Python / polars strings: lexicographic by code point.
StrLess(a, b) ==
    \E k \in 1..(Len(b)) :
        /\ \A j \in 1..(k - 1) : j <= Len(a) /\ a[j] = b[j]
        /\ Len(a) >= k - 1
        /\ (Len(a) = k - 1 \/ Ord(a[k]) < Ord(b[k]))

\* s.split(sep) for a one-character separator.
RECURSIVE Split(_, _)
Split(s, sep) ==
    IF \A k \in 1..Len(s) : s[k] # sep THEN <<s>>
    ELSE LET p == CHOOSE k \in 1..Len(s) :
                      s[k] = sep /\ \A j \in 1..(k - 1) : s[j] # sep
         IN  <<SubSeq(s, 1, p - 1)>> \o Split(SubSeq(s, p + 1, Len(s)), sep)

\* s.strip(): leading and trailing whitespace removed.
Strip(s) ==
    IF \A k \in 1..Len(s) : s[k] = " " THEN <<>>
    ELSE LET lo == CHOOSE k \in 1..Len(s) :
                       s[k] # " " /\ \A j \in 1..(k - 1) : s[j] = " "
             hi == CHOOSE k \in 1..Len(s) :
                       s[k] # " " /\ \A j \in (k + 1)..Len(s) : s[j] = " "
         IN  SubSeq(s, lo, hi)

\* sep.join(pieces)
RECURSIVE Join(_, _)
Join(sep, pieces) ==
    IF pieces = <<>> THEN <<>>
    ELSE IF Len(pieces) = 1 THEN pieces[1]
    ELSE pieces[1] \o sep \o Join(sep, Tail(pieces))

(***************************************************************************)
(* Dates: datetime.date as days since 2024-01-01, and strftime.            *)
(***************************************************************************)
RECURSIVE MonthDay(_, _)
\* <<month, day of month>> of the date `d` days after the first of month m.
MonthDay(d, m) ==
    IF d < MonthLengths[m] THEN <<m, d + 1>>
    ELSE MonthDay(d - MonthLengths[m], m + 1)

Pad2(n) == IF n < 10 THEN <<"0">> \o NatToStr(n) ELSE NatToStr(n)

\* date.strftime("%A %d %B %Y"); 2024-01-01 is a Monday.
FormatDate(d) ==
    LET md == MonthDay(d, 1)
    IN  WeekdayNames[(d % 7) + 1] \o <<" ">> \o Pad2(md[2]) \o <<" ">>
            \o MonthNames[md[1]] \o <<" ">> \o NatToStr(EpochYear)

(***************************************************************************)
(* Data frames: sequences of rows.                                         *)
(***************************************************************************)
RemoveAt(s, k) == SubSeq(s, 1, k - 1) \o SubSeq(s, k + 1, Len(s))

\* list.remove(x): the first occurrence is removed.
ListRemove(s, x) ==
    RemoveAt(s, CHOOSE k \in 1..Len(s) : s[k] = x /\ \A j \in 1..(k - 1) : s[j] # x)

\* The rows of s at the indices in S, in the order of s.
RowsAt(s, S) ==
    [k \in 1..Cardinality(S) |->
        s[CHOOSE i \in S : Cardinality({j \in S : j < i}) = k - 1]]

NameLess(r, q) == StrLess(r.name, q.name)

DateNameLess(r, q) ==
    r.date < q.date \/ (r.date = q.date /\ StrLess(r.name, q.name))

RECURSIVE SortByName(_)
\* DataFrame.sort(by=["name"])
SortByName(rows) ==
    IF rows = <<>> THEN <<>>
    ELSE LET m == CHOOSE i \in 1..Len(rows) :
                      /\ \A j \in 1..Len(rows) : ~NameLess(rows[j], rows[i])
                      /\ \A j \in 1..(i - 1) : NameLess(rows[i], rows[j])
         IN  <<rows[m]>> \o SortByName(RemoveAt(rows, m))

RECURSIVE SortByDateName(_)
\* DataFrame.sort(by=["date", "name"])
SortByDateName(rows) ==
    IF rows = <<>> THEN <<>>
    ELSE LET m == CHOOSE i \in 1..Len(rows) :
                      /\ \A j \in 1..Len(rows) : ~DateNameLess(rows[j], rows[i])
                      /\ \A j \in 1..(i - 1) : DateNameLess(rows[i], rows[j])
         IN  <<rows[m]>> \o SortByDateName(RemoveAt(rows, m))

\* The rows without the unique() of line 112.
KeepAllCustomerRows(rows) == {rows}

\* DataFrame.unique(subset=["name"]): one row of each name is kept; which one,
\* and in what order, is not specified, so every choice is possible.
UniqueByName(rows) ==
    { RowsAt(rows, S) : S \in
        { T \in SUBSET (1..Len(rows)) :
            \A i \in 1..Len(rows) :
                Cardinality({j \in T : rows[j].name = rows[i].name}) = 1 } }

\* The rows without the unique() of line 156.
KeepAllOrderRows(rows) == {rows}

\* DataFrame.unique(subset=["name", "date"])
UniqueByNameDate(rows) ==
    { RowsAt(rows, S) : S \in
        { T \in SUBSET (1..Len(rows)) :
            \A i \in 1..Len(rows) :
                Cardinality({j \in T : /\ rows[j].name = rows[i].name
                                       /\ rows[j].date = rows[i].date}) = 1 } }

\* The names of the pool with the injected whitespace cleaned away.
StrippedNamesOf(df) == [k \in 1..Len(df) |-> Strip(df[k].name)]

\* pl.Series(df_customers.select("name")).to_list()
NamesOf(df) == [k \in 1..Len(df) |-> df[k].name]

JoinedRow(o, age, gender) ==
    [name |-> o.name, date |-> o.date, hairstyle |-> o.hairstyle, costs |-> o.costs,
     age |-> age, gender |-> gender]

RECURSIVE LeftJoin(_, _)
\* df_orders.join(df_customers, how="left", on=["name"]): one row per matching
\* customer, and a row with null age and gender for an order that matches none.
LeftJoin(orders, customers) ==
    IF orders = <<>> THEN <<>>
    ELSE LET o  == Head(orders)
             ms == SelectSeq(customers, LAMBDA c : c.name = o.name)
         IN  (IF ms = <<>> THEN <<JoinedRow(o, None, None)>>
              ELSE [k \in 1..Len(ms) |->
                       JoinedRow(o, Some(ms[k].age), Some(ms[k].gender))])
             \o LeftJoin(Tail(orders), customers)

PyNone == <<"N", "o", "n", "e">>

\* The f-string of main: name,age,gender,date,hairstyle,costs
FormatRow(r) ==
    r.name \o <<",">>
        \o (IF r.age = None THEN PyNone ELSE IntToStr(r.age[1])) \o <<",">>
        \o (IF r.gender = None THEN PyNone ELSE <<r.gender[1]>>) \o <<",">>
        \o FormatDate(r.date) \o <<",">> \o r.hairstyle \o <<",">> \o IntToStr(r.costs)

\* The output string with a separator after every record.
SerializeTerminated(rows) ==
    Join(<<>>, [k \in 1..Len(rows) |-> FormatRow(rows[k]) \o <<";">>])

\* ";".join(data_rows) over the rows of df_customers_orders
Serialize(rows) == Join(<<";">>, [k \in 1..Len(rows) |-> FormatRow(rows[k])])

(***************************************************************************)
(* Inputs of the model: what the caller passes.                            *)
(***************************************************************************)
\* seed=None, a falsy seed value, and the seed of the __main__ block.
NoSeed == "None"
SeedValues == {NoSeed, "", "98838658"}

\* if seed:
Truthy(s) == s # NoSeed /\ s # ""

\* (min_age, max_age) pairs passed to CustomerSpecs, and a min_age assigned later.
AgePairs == {<<18, 18>>, <<18, 17>>}
LateMinAges == {19}

\* prob_whitespace_in_name, in hundredths.
ProbValues == {30}

\* Largest number of orders one call of create_order_data is asked to generate.
MaxOrders == 2
\* The earliest start_date the caller passes: 2024-01-31.
FirstDate == 30
DateValues == FirstDate..(FirstDate + MaxSpan)

\* The name lists of the `fake` object.  The caller may pass any Faker, so a
\* fabricated name may itself end in a space.
FirstNamesMale == << <<"A", "l">> >>
FirstNamesFemale == << <<"B", "o">> >>
FirstNamesNonbinary == FirstNamesMale \o FirstNamesFemale
LastNames == << <<"X">>, <<"X", " ">> >>

\* customer_names lists passed to create_order_data when it is called directly.
CallerNames == { <<"A", "l", " ", "X">>, <<" ", "B", "o", " ", "X">> }
MaxNames == 2
NameLists == UNION { [1..n -> CallerNames] : n \in 0..MaxNames }

(***************************************************************************)
(* The random generators.  A generator is a stream (named by the value it  *)
(* was seeded with, or by the operating system's entropy) and a position   *)
(* in it; `tape` holds the value at each position read so far, so that two *)
(* generators seeded alike produce the same values.  Every call of the     *)
(* random module or of the fake object reads one cell and advances the     *)
(* position by one.  A draw below n of a cell not read before can take any *)
(* of the first DrawMax values below n; a draw of a cell read before       *)
(* returns the value it holds, reduced modulo n.                           *)
(***************************************************************************)
Cell(g) == <<g.stream, g.pos>>

\* random.seed(s), Faker.seed(s), fake.seed_instance(s)
Seeded(s) == [stream |-> s, pos |-> 0]

Adv(g) == [g EXCEPT !.pos = @ + 1]

\* The values a draw below n on generator g can return: the value of the cell
\* if it was read before, else any of the first `cap` values below n.
DrawsCapped(tp, g, n, cap) ==
    IF Cell(g) \in DOMAIN tp THEN {tp[Cell(g)] % n}
    ELSE 0..(Min(n, cap) - 1)

Draws(tp, g, n) == DrawsCapped(tp, g, n, DrawMax)

\* The tape after generator g returned v.
Written(tp, g, v) == IF Cell(g) \in DOMAIN tp THEN tp ELSE tp @@ (Cell(g) :> v)

\* The generator the `fake` object draws from.
FakeGen == IF fake_inst = None THEN faker_shared ELSE fake_inst[1]

SetFakeGen(g) ==
    IF fake_inst = None
    THEN faker_shared' = g /\ fake_inst' = None
    ELSE fake_inst' = Some(g) /\ faker_shared' = faker_shared

\* fake.first_name_male() / first_name_female() / first_name_nonbinary()
FirstNames(gender) ==
    IF gender = "M" THEN FirstNamesMale
    ELSE IF gender = "F" THEN FirstNamesFemale
    ELSE FirstNamesNonbinary

(***************************************************************************)
(* State.                                                                  *)
(***************************************************************************)
custLocals == <<i_cust, data_rows, names_generated, fabricated, collisions, df_customers>>
ordLocals == <<customer_names, current_date, k_day, not_chosen_names, new_rows,
               order_rows, ord_draws, df_orders>>
specObjs == <<customer_specs, order_specs>>
fakeGens == <<faker_shared, fake_inst>>
callArgs == <<entry, seed, prev>>
generatorVars == <<specObjs, callArgs, pc, rng, fakeGens, tape, events, custLocals,
                   ordLocals, df_customers_orders, result, error>>
exerciseVars == <<script_pc, orders_casted, original_prices, total_revenue,
                  total_revenue_inflation_correction, total_revenue_discount,
                  total_revenue_discount_no_wavy>>

NoError == [kind |-> "", raised_in |-> ""]

GeneratorInit ==
    /\ customer_specs = None
    /\ order_specs = None
    /\ pc = "idle"
    /\ entry = ""
    /\ seed = NoSeed
    /\ rng = [stream |-> "os", pos |-> 0]
    /\ faker_shared = [stream |-> "osf", pos |-> 0]
    /\ fake_inst = None
    /\ tape = [c \in {} |-> 0]
    /\ events = <<>>
    /\ i_cust = 0
    /\ data_rows = <<>>
    /\ names_generated = {}
    /\ fabricated = <<>>
    /\ collisions = 0
    /\ df_customers = <<>>
    /\ customer_names = <<>>
    /\ current_date = 0
    /\ k_day = 0
    /\ not_chosen_names = <<>>
    /\ new_rows = <<>>
    /\ order_rows = <<>>
    /\ ord_draws = 0
    /\ df_orders = None
    /\ df_customers_orders = <<>>
    /\ result = None
    /\ error = NoError
    /\ prev = None

\* generate_data.py on its own: the exercises script is not running.
Init ==
    /\ GeneratorInit
    /\ script_pc = "not_run"
    /\ orders_casted = <<>>
    /\ original_prices = <<>>
    /\ total_revenue = None
    /\ total_revenue_inflation_correction = None
    /\ total_revenue_discount = None
    /\ total_revenue_discount_no_wavy = None

\* The function a control position belongs to.
FrameOf(p) ==
    IF p \in {"cust_init", "cust_loop"} THEN "create_customer_data"
    ELSE IF p \in {"ord_init", "ord_while", "ord_for", "ord_finish"}
         THEN "create_order_data"
    ELSE IF p \in {"main_names", "main_join"} THEN "main"
    ELSE "caller"

\* An exception propagates to the caller and ends the call.
Raise(kind) == pc' = "error" /\ error' = [kind |-> kind, raised_in |-> FrameOf(pc)]

(***************************************************************************)
(* The caller: building the spec objects.                                  *)
(***************************************************************************)
\* CustomerSpecs(num_customers=n, min_age=lo, max_age=hi, prob_whitespace_in_name=p)
NewCustomerSpecs(n, lo, hi, p) ==
    /\ pc = "idle"
    /\ customer_specs = None
    /\ IF lo > hi
       THEN Raise("ValueError") /\ UNCHANGED customer_specs
       ELSE /\ customer_specs' = Some([num_customers |-> n, min_age |-> lo,
                                       max_age |-> hi, prob_whitespace_in_name |-> p])
            /\ UNCHANGED <<pc, error>>
    /\ UNCHANGED <<order_specs, callArgs, rng, fakeGens, tape, events, custLocals,
                   ordLocals, df_customers_orders, result>>
    /\ UNCHANGED exerciseVars

\* specs.min_age = v on an existing CustomerSpecs: the dataclass is not frozen
\* and __post_init__ does not run again.
SetMinAge(v) ==
    /\ pc = "idle"
    /\ customer_specs # None
    /\ customer_specs' = Some([customer_specs[1] EXCEPT !.min_age = v])
    /\ UNCHANGED <<order_specs, pc, error, callArgs, rng, fakeGens, tape, events,
                   custLocals, ordLocals, df_customers_orders, result>>
    /\ UNCHANGED exerciseVars

\* The number of orders a call with these arguments generates.
OrdersAsked(n, s, e) == IF s > e THEN 0 ELSE n * (e - s + 1)

\* OrderSpecs(num_orders_per_day=n, start_date=s, end_date=e)
NewOrderSpecs(n, s, e) ==
    /\ pc = "idle"
    /\ order_specs = None
    /\ OrdersAsked(n, s, e) <= MaxOrders
    /\ IF s > e
       THEN Raise("ValueError") /\ UNCHANGED order_specs
       ELSE /\ order_specs' = Some([num_orders_per_day |-> n, start_date |-> s,
                                    end_date |-> e])
            /\ UNCHANGED <<pc, error>>
    /\ UNCHANGED <<customer_specs, callArgs, rng, fakeGens, tape, events, custLocals,
                   ordLocals, df_customers_orders, result>>
    /\ UNCHANGED exerciseVars

\* specs.start_date = v on an existing OrderSpecs.
SetStartDate(v) ==
    /\ pc = "idle"
    /\ order_specs # None
    /\ v # order_specs[1].start_date
    /\ OrdersAsked(order_specs[1].num_orders_per_day, v, order_specs[1].end_date)
           <= MaxOrders
    /\ order_specs' = Some([order_specs[1] EXCEPT !.start_date = v])
    /\ UNCHANGED <<customer_specs, pc, error, callArgs, rng, fakeGens, tape, events,
                   custLocals, ordLocals, df_customers_orders, result>>
    /\ UNCHANGED exerciseVars

(***************************************************************************)
(* The caller: the three entry points.                                     *)
(***************************************************************************)
\* The locals of a fresh call.
FreshLocals ==
    /\ i_cust' = 0
    /\ data_rows' = <<>>
    /\ names_generated' = {}
    /\ fabricated' = <<>>
    /\ collisions' = 0
    /\ df_customers' = <<>>
    /\ current_date' = 0
    /\ k_day' = 0
    /\ not_chosen_names' = <<>>
    /\ new_rows' = <<>>
    /\ order_rows' = <<>>
    /\ ord_draws' = 0
    /\ df_orders' = None
    /\ df_customers_orders' = <<>>
    /\ result' = None
    /\ error' = NoError

\* main(customer_specs, order_specs, seed=s), down to the seeding of lines 175-179.
\* `fake` is a new Faker, which draws from the generator Faker instances share.
MainEnter(s) ==
    /\ entry' = "main"
    /\ seed' = s
    /\ customer_names' = <<>>
    /\ fake_inst' = None
    /\ IF Truthy(s)
       THEN /\ faker_shared' = Seeded(s)
            /\ rng' = Seeded(s)
            /\ events' = <<"seed">>
       ELSE /\ UNCHANGED <<faker_shared, rng>>
            /\ events' = <<>>
    /\ pc' = "cust_init"

CallMain(s) ==
    /\ pc = "idle"
    /\ customer_specs # None
    /\ order_specs # None
    /\ MainEnter(s)
    /\ FreshLocals
    /\ UNCHANGED <<specObjs, tape, prev>>
    /\ UNCHANGED exerciseVars

\* create_customer_data(specs=customer_specs, seed=s) called directly.
CallCreateCustomerData(s) ==
    /\ pc = "idle"
    /\ customer_specs # None
    /\ entry' = "create_customer_data"
    /\ seed' = s
    /\ pc' = "cust_init"
    /\ events' = <<>>
    /\ customer_names' = <<>>
    /\ FreshLocals
    /\ UNCHANGED <<specObjs, rng, fakeGens, tape, prev>>
    /\ UNCHANGED exerciseVars

\* create_order_data(specs=order_specs, customer_names=names, seed=s) called directly.
CallCreateOrderData(names, s) ==
    /\ pc = "idle"
    /\ order_specs # None
    /\ entry' = "create_order_data"
    /\ seed' = s
    /\ pc' = "ord_init"
    /\ events' = <<>>
    /\ FreshLocals
    /\ customer_names' = names
    /\ UNCHANGED <<specObjs, rng, fakeGens, tape, prev>>
    /\ UNCHANGED exerciseVars

(***************************************************************************)
(* create_customer_data                                                    *)
(***************************************************************************)
\* Lines 76-83: the fake object, the seeding, the empty collections.
CustInit ==
    /\ pc = "cust_init"
    /\ IF Truthy(seed)
       THEN /\ fake_inst' = Some(Seeded(seed))
            /\ rng' = Seeded(seed)
            /\ events' = Append(events, "seed")
       ELSE /\ fake_inst' = None
            /\ UNCHANGED <<rng, events>>
    /\ data_rows' = <<>>
    /\ names_generated' = {}
    /\ pc' = "cust_loop"
    /\ UNCHANGED <<specObjs, callArgs, faker_shared, tape, i_cust, fabricated, collisions,
                   df_customers, ordLocals, df_customers_orders, result, error>>
    /\ UNCHANGED exerciseVars

\* The whitespace injection with two independent tests (if / if) on the draw.
StoredNameBoth(full, u, p) ==
    LET trailed == IF u * 100 < p * FloatSteps THEN full \o <<" ">> ELSE full
    IN  IF u * 100 < 2 * p * FloatSteps THEN <<" ">> \o trailed ELSE trailed

\* The name a data row stores: the whitespace injection of lines 102-107, for
\* random.random() = u / FloatSteps and prob_whitespace_in_name = p / 100.
StoredName(full, u, p) ==
    IF u * 100 < p * FloatSteps THEN full \o <<" ">>
    ELSE IF u * 100 < 2 * p * FloatSteps THEN <<" ">> \o full
    ELSE full

\* The test of line 98 left out: no fabricated name is ever skipped.
NeverSkipped(full_name, names) == FALSE

\* Line 98: if full_name in names_generated
AlreadyGenerated(full_name, names) == full_name \in names

\* Lines 85-109: one iteration of the customer loop.
CustIter ==
    /\ pc = "cust_loop"
    /\ i_cust < customer_specs[1].num_customers
    /\ LET cs == customer_specs[1] IN
       \E g \in Draws(tape, rng, Len(GENDERS)) :
         LET t1 == Written(tape, rng, g)
             r1 == Adv(rng)
             gender == GENDERS[g + 1]
         IN
         IF cs.min_age > cs.max_age
         THEN \* random.randint(min_age, max_age) raises on the empty range
              /\ Raise("ValueError")
              /\ tape' = t1
              /\ rng' = r1
              /\ events' = Append(events, "draw")
              /\ UNCHANGED <<fakeGens, custLocals>>
         ELSE
           \E a \in Draws(t1, r1, cs.max_age - cs.min_age + 1) :
           \E f \in Draws(Written(t1, r1, a), FakeGen, Len(FirstNames(gender))) :
             LET t2 == Written(t1, r1, a)
                 r2 == Adv(r1)
                 t3 == Written(t2, FakeGen, f)
                 k1 == Adv(FakeGen)
             IN
             \E l \in Draws(t3, k1, Len(LastNames)) :
               LET t4 == Written(t3, k1, l)
                   k2 == Adv(k1)
                   age == cs.min_age + a
                   full_name == FirstNames(gender)[f + 1] \o <<" ">> \o LastNames[l + 1]
               IN
               /\ SetFakeGen(k2)
               /\ i_cust' = i_cust + 1
               /\ UNCHANGED <<pc, error, df_customers>>
               /\ collisions' = IF full_name \in names_generated
                                 THEN collisions + 1 ELSE collisions
               /\ IF AlreadyGenerated(full_name, names_generated)
                  THEN \* continue
                       /\ tape' = t4
                       /\ rng' = r2
                       /\ events' = events \o <<"draw", "draw">>
                       /\ UNCHANGED <<data_rows, names_generated, fabricated>>
                  ELSE \E u \in Draws(t4, r2, FloatSteps) :
                       /\ tape' = Written(t4, r2, u)
                       /\ rng' = Adv(r2)
                       /\ events' = events \o <<"draw", "draw", "draw">>
                       /\ names_generated' = names_generated \cup {full_name}
                       /\ fabricated' = Append(fabricated, full_name)
                       /\ data_rows' = Append(data_rows,
                              [name |-> StoredName(full_name, u,
                                                   cs.prob_whitespace_in_name),
                               age |-> age, gender |-> gender])
    /\ UNCHANGED <<specObjs, callArgs, ordLocals, df_customers_orders, result>>
    /\ UNCHANGED exerciseVars

\* Lines 111-118: pl.from_dicts, unique, sort.  pl.from_dicts of no rows has no
\* "name" column: the call ends with an exception.
CustFinish ==
    /\ pc = "cust_loop"
    /\ i_cust >= customer_specs[1].num_customers
    /\ IF data_rows = <<>>
       THEN Raise("PolarsError") /\ UNCHANGED df_customers
       ELSE /\ \E kept \in UniqueByName(data_rows) : df_customers' = SortByName(kept)
            /\ pc' = IF entry = "main" THEN "main_names" ELSE "done"
            /\ UNCHANGED error
    /\ UNCHANGED <<specObjs, callArgs, rng, fakeGens, tape, events, i_cust, data_rows,
                   names_generated, fabricated, collisions, ordLocals, df_customers_orders,
                   result>>
    /\ UNCHANGED exerciseVars

\* Lines 183-184 of main: the names of the pool are passed to create_order_data.
MainNames ==
    /\ pc = "main_names"
    /\ customer_names' = NamesOf(df_customers)
    /\ pc' = "ord_init"
    /\ UNCHANGED <<specObjs, callArgs, rng, fakeGens, tape, events, custLocals,
                   current_date, k_day, not_chosen_names, new_rows, order_rows,
                   ord_draws, df_orders, df_customers_orders, result, error>>
    /\ UNCHANGED exerciseVars

(***************************************************************************)
(* create_order_data                                                       *)
(***************************************************************************)
\* The check of line 129 off by one.
TooFewNamesOffByOne(names, os) == Len(names) + 1 < os.num_orders_per_day

\* Line 129: if len(customer_names) < specs.num_orders_per_day
TooFewNames(names, os) == Len(names) < os.num_orders_per_day

\* Lines 129-136: the check, the seeding, the empty collections.
OrdInit ==
    /\ pc = "ord_init"
    /\ IF TooFewNames(customer_names, order_specs[1])
       THEN /\ Raise("ValueError")
            /\ UNCHANGED <<rng, events, order_rows, current_date>>
       ELSE /\ IF Truthy(seed)
               THEN rng' = Seeded(seed) /\ events' = Append(events, "seed")
               ELSE UNCHANGED <<rng, events>>
            /\ order_rows' = <<>>
            /\ current_date' = order_specs[1].start_date
            /\ pc' = "ord_while"
            /\ UNCHANGED error
    /\ UNCHANGED <<specObjs, callArgs, fakeGens, tape, custLocals, customer_names,
                   k_day, not_chosen_names, new_rows, ord_draws, df_orders,
                   df_customers_orders,
                   result>>
    /\ UNCHANGED exerciseVars

\* Lines 138-140: the test of the while loop and the start of a day.
OrdWhile ==
    /\ pc = "ord_while"
    /\ IF current_date <= order_specs[1].end_date
       THEN /\ new_rows' = <<>>
            /\ not_chosen_names' = customer_names
            /\ k_day' = 0
            /\ pc' = "ord_for"
       ELSE /\ pc' = "ord_finish"
            /\ UNCHANGED <<new_rows, not_chosen_names, k_day>>
    /\ UNCHANGED <<specObjs, callArgs, rng, fakeGens, tape, events, custLocals,
                   customer_names, current_date, order_rows, ord_draws, df_orders,
                   df_customers_orders, result, error>>
    /\ UNCHANGED exerciseVars

\* Lines 141-150: one iteration of the inner loop.
OrdFor ==
    /\ pc = "ord_for"
    /\ k_day < order_specs[1].num_orders_per_day
    /\ \E h \in DrawsCapped(tape, rng, Len(HAIRSTYLES), StylesDrawn) :
         LET t1 == Written(tape, rng, h)
             r1 == Adv(rng)
         IN
         IF not_chosen_names = <<>>
         THEN \* random.choice of an empty list raises IndexError
              /\ Raise("IndexError")
              /\ tape' = t1
              /\ rng' = r1
              /\ events' = Append(events, "draw")
              /\ ord_draws' = ord_draws + 1
              /\ UNCHANGED <<not_chosen_names, new_rows, k_day>>
         ELSE \E c \in Draws(t1, r1, Len(not_chosen_names)) :
              LET chosen_name == not_chosen_names[c + 1] IN
              /\ tape' = Written(t1, r1, c)
              /\ rng' = Adv(r1)
              /\ events' = events \o <<"draw", "draw">>
              /\ ord_draws' = ord_draws + 2
              /\ not_chosen_names' = ListRemove(not_chosen_names, chosen_name)
              /\ new_rows' = Append(new_rows,
                     [name |-> chosen_name, date |-> current_date,
                      hairstyle |-> HAIRSTYLES[h + 1].hairstyle,
                      costs |-> HAIRSTYLES[h + 1].costs])
              /\ k_day' = k_day + 1
              /\ UNCHANGED <<pc, error>>
    /\ UNCHANGED <<specObjs, callArgs, fakeGens, custLocals, customer_names,
                   current_date, order_rows, df_orders, df_customers_orders, result>>
    /\ UNCHANGED exerciseVars

\* Lines 152-153: the end of a day.
OrdDayEnd ==
    /\ pc = "ord_for"
    /\ k_day >= order_specs[1].num_orders_per_day
    /\ order_rows' = order_rows \o new_rows
    /\ current_date' = current_date + 1
    /\ pc' = "ord_while"
    /\ UNCHANGED <<specObjs, callArgs, rng, fakeGens, tape, events, custLocals,
                   customer_names, k_day, not_chosen_names, new_rows, ord_draws,
                   df_orders, df_customers_orders, result, error>>
    /\ UNCHANGED exerciseVars

\* Lines 155-161: pl.from_dicts, unique, sort.
OrdFinish ==
    /\ pc = "ord_finish"
    /\ IF order_rows = <<>>
       THEN Raise("PolarsError") /\ UNCHANGED df_orders
       ELSE /\ \E kept \in UniqueByNameDate(order_rows) :
                   df_orders' = Some(SortByDateName(kept))
            /\ pc' = IF entry = "main" THEN "main_join" ELSE "done"
            /\ UNCHANGED error
    /\ UNCHANGED <<specObjs, callArgs, rng, fakeGens, tape, events, custLocals,
                   customer_names, current_date, k_day, not_chosen_names, new_rows,
                   order_rows, ord_draws, df_customers_orders, result>>
    /\ UNCHANGED exerciseVars

(***************************************************************************)
(* main: the join and the output string.                                   *)
(***************************************************************************)
\* Lines 186-195.
MainSerialize ==
    /\ pc = "main_join"
    /\ df_customers_orders' = SortByDateName(LeftJoin(df_orders[1], df_customers))
    /\ result' = Some(Serialize(df_customers_orders'))
    /\ pc' = "done"
    /\ UNCHANGED <<specObjs, callArgs, rng, fakeGens, tape, events, custLocals,
                   ordLocals, error>>
    /\ UNCHANGED exerciseVars

\* The caller runs main once more with the same arguments.
Rerun ==
    /\ pc = "done"
    /\ entry = "main"
    /\ prev = None
    /\ customer_specs[1].num_customers <= RerunMaxCustomers
    /\ prev' = Some([seed |-> seed, customer_specs |-> customer_specs[1],
                     order_specs |-> order_specs[1], result |-> result[1]])
    /\ MainEnter(seed)
    /\ FreshLocals
    /\ UNCHANGED <<specObjs, tape>>
    /\ UNCHANGED exerciseVars

Next ==
    \/ \E n \in 0..MaxCustomers, a \in AgePairs, p \in ProbValues :
           NewCustomerSpecs(n, a[1], a[2], p)
    \/ \E v \in LateMinAges : SetMinAge(v)
    \/ \E n \in 0..MaxOrders, s \in DateValues, e \in DateValues : NewOrderSpecs(n, s, e)
    \/ \E v \in DateValues \cup {FirstDate + MaxSpan + 1} : SetStartDate(v)
    \/ \E s \in SeedValues : CallMain(s)
    \/ \E s \in SeedValues : CallCreateCustomerData(s)
    \/ \E names \in NameLists, s \in SeedValues : CallCreateOrderData(names, s)
    \/ CustInit
    \/ CustIter
    \/ CustFinish
    \/ MainNames
    \/ OrdInit
    \/ OrdWhile
    \/ OrdFor
    \/ OrdDayEnd
    \/ OrdFinish
    \/ MainSerialize

Spec == Init /\ [][Next]_vars

NextRerun == Next \/ Rerun

SpecRerun == Init /\ [][NextRerun]_vars

(***************************************************************************)
(* The parsing of the output string in Exercises 1.1 and 1.2.              *)
(***************************************************************************)
\* Exercise 1.1: orders_strings
OrdersStrings(data_string) ==
    LET pieces == Split(data_string, ";")
    IN  [k \in 1..Len(pieces) |-> Strip(pieces[k])]

\* Exercise 1.2: orders_lists
OrdersLists(orders_strings) ==
    [k \in 1..Len(orders_strings) |-> Split(orders_strings[k], ",")]

(***************************************************************************)
(* Exercises 4.1, 4.6, 4.8, 4.10 and 5.1 of exercises.py, over orders_casted.*)
(* Prices become floats when multiplied; they are kept here as exact       *)
(* multiples of 1 / MoneyUnit euro (binary rounding is left out), and a     *)
(* factor such as 1 + inflation is a number of PerUnit-ths.                 *)
(***************************************************************************)
\* Factors are multiples of 0.005 = 1 / PerUnit (3.5 / 100 is 7 of them).
PerUnit == 200

\* Three multiplications by PerUnit-ths stay exact in MoneyUnit-ths of a euro.
MoneyUnit == PerUnit * PerUnit * PerUnit

\* Line 330: inflation = 3.5 / 100
inflation == 7

\* Line 367: discount_juniors = 0.10
discount_juniors == 20

\* Line 368: discount_seniors = 0.05
discount_seniors == 10

\* price * (f / PerUnit)
Times(price, f) == (price \div PerUnit) * f

Wavy == <<"W", "a", "v", "y">>

\* Ages around the limits 18 and 65 of the exercises (the script generates
\* customers of 12 to 80).
ExerciseAges == {17, 18, 65, 66}

\* Hairstyles of the orders: Bald and Wavy.
ExerciseStyles == {HAIRSTYLES[k] : k \in {2, Len(HAIRSTYLES)}}

MaxExerciseOrders == 2

\* Exercise 1.4: one row of orders_casted, for the order of day d:
\* [name, age, gender, date, hairstyle, price] with age and price integers.
ExerciseOrder(d, a, h) ==
    [name |-> <<"A", "l", " ", "X">>, age |-> a, gender |-> "M",
     date |-> FormatDate(d), hairstyle |-> h.hairstyle,
     price |-> h.costs * MoneyUnit]

\* The orders_casted lists the exercises are run on: one order per day.
ExerciseOrderLists ==
    UNION { { [k \in 1..n |-> ExerciseOrder(FirstDate + k - 1, as[k], hs[k])] :
                as \in [1..n -> ExerciseAges], hs \in [1..n -> ExerciseStyles] } :
            n \in 0..MaxExerciseOrders }

PricesOf(orders) == [k \in 1..Len(orders) |-> orders[k].price]

RECURSIVE SumSeq(_)
SumSeq(xs) == IF xs = <<>> THEN 0 ELSE xs[1] + SumSeq(Tail(xs))

\* The script starts Exercise 4.1 with the orders_casted of Exercise 1.4.
InitExercises ==
    /\ GeneratorInit
    /\ script_pc = "ex_4_1"
    /\ orders_casted \in ExerciseOrderLists
    /\ original_prices = PricesOf(orders_casted)
    /\ total_revenue = None
    /\ total_revenue_inflation_correction = None
    /\ total_revenue_discount = None
    /\ total_revenue_discount_no_wavy = None

\* Lines 440-443 (and the loop of lines 216-218): the sum of order[5].
calculate_revenue(orders) == SumSeq(PricesOf(orders))

\* Lines 215-219: Exercise 4.1.
Exercise41 ==
    /\ script_pc = "ex_4_1"
    /\ total_revenue' = Some(calculate_revenue(orders_casted))
    /\ script_pc' = "ex_4_6"
    /\ UNCHANGED <<generatorVars, orders_casted, original_prices,
                   total_revenue_inflation_correction, total_revenue_discount,
                   total_revenue_discount_no_wavy>>

\* Line 332: if order[1] > 18 or order[1] < 65
InflationApplies(order) == order.age > 18 \/ order.age < 65

\* Lines 327-335: Exercise 4.6.  order[5] *= (1 + inflation) changes the row
\* of orders_casted; only the changed rows are added up.
Exercise46 ==
    /\ script_pc = "ex_4_6"
    /\ LET after == [k \in 1..Len(orders_casted) |->
                       IF InflationApplies(orders_casted[k])
                       THEN [orders_casted[k] EXCEPT
                               !.price = Times(@, PerUnit + inflation)]
                       ELSE orders_casted[k]]
           counted == SelectSeq(after, InflationApplies)
       IN  /\ orders_casted' = after
           /\ total_revenue_inflation_correction' = Some(calculate_revenue(counted))
    /\ script_pc' = "ex_4_8"
    /\ UNCHANGED <<generatorVars, original_prices, total_revenue,
                   total_revenue_discount, total_revenue_discount_no_wavy>>

\* Lines 370-375: the factor Exercise 4.8 multiplies order[5] by.
DiscountFactor(order) ==
    IF order.age < 18 THEN PerUnit - discount_juniors
    ELSE IF order.age > 65 THEN PerUnit - discount_seniors
    ELSE PerUnit + inflation

\* Lines 365-377: Exercise 4.8.
Exercise48 ==
    /\ script_pc = "ex_4_8"
    /\ orders_casted' = [k \in 1..Len(orders_casted) |->
                           [orders_casted[k] EXCEPT
                              !.price = Times(@, DiscountFactor(orders_casted[k]))]]
    /\ total_revenue_discount' = Some(calculate_revenue(orders_casted'))
    /\ script_pc' = "ex_4_10"
    /\ UNCHANGED <<generatorVars, original_prices, total_revenue,
                   total_revenue_inflation_correction, total_revenue_discount_no_wavy>>

\* Lines 409-414: the factor Exercise 4.10 multiplies order[5] by.
DiscountFactorNoWavy(order) ==
    IF order.age < 18 /\ order.hairstyle # Wavy THEN PerUnit - discount_juniors
    ELSE IF order.age > 65 THEN PerUnit - discount_seniors
    ELSE PerUnit + inflation

\* Lines 407-416: Exercise 4.10.
Exercise410 ==
    /\ script_pc = "ex_4_10"
    /\ orders_casted' = [k \in 1..Len(orders_casted) |->
                           [orders_casted[k] EXCEPT
                              !.price = Times(@, DiscountFactorNoWavy(orders_casted[k]))]]
    /\ total_revenue_discount_no_wavy' = Some(calculate_revenue(orders_casted'))
    /\ script_pc' = "ex_5_1"
    /\ UNCHANGED <<generatorVars, original_prices, total_revenue,
                   total_revenue_inflation_correction, total_revenue_discount>>

\* Lines 437-445: Exercise 5.1, total_revenue = calculate_revenue(orders_casted).
Exercise51 ==
    /\ script_pc = "ex_5_1"
    /\ total_revenue' = Some(calculate_revenue(orders_casted))
    /\ script_pc' = "ex_end"
    /\ UNCHANGED <<generatorVars, orders_casted, original_prices,
                   total_revenue_inflation_correction, total_revenue_discount,
                   total_revenue_discount_no_wavy>>

NextExercises ==
    \/ Exercise41
    \/ Exercise46
    \/ Exercise48
    \/ Exercise410
    \/ Exercise51

SpecExercises == InitExercises /\ [][NextExercises]_vars

(***************************************************************************)
(* Properties.                                                             *)
(***************************************************************************)
\* A call of main returned.
MainDone == pc = "done" /\ entry = "main"

\* The optional value x holds v.
Holds(x, v) == x # None /\ x[1] = v

\* C1: the customer pool create_customer_data returns holds no two customers
\* with the same stored name string (injected spaces included).
C1_UniquePoolNames ==
    \A i, j \in 1..Len(df_customers) :
        i # j => df_customers[i].name # df_customers[j].name

\* C1 witness: create_customer_data returned a pool after two data rows with
\* the same stored name were generated (from different fabricated names).
C1_Witness ==
    /\ pc = "done"
    /\ entry = "create_customer_data"
    /\ Len(data_rows) = 2
    /\ data_rows[1].name = data_rows[2].name
    /\ fabricated[1] # fabricated[2]
    /\ Len(df_customers) = 1

\* C2: the orders create_order_data returns hold no two orders with the same
\* (customer name, date) pair.
C2_UniqueNameDate ==
    df_orders # None =>
        \A i, j \in 1..Len(df_orders[1]) :
            i # j => \/ df_orders[1][i].name # df_orders[1][j].name
                     \/ df_orders[1][i].date # df_orders[1][j].date

\* C2 witness: create_order_data returned after it generated two orders of one
\* name on one date (the name occurs twice in customer_names).
C2_Witness ==
    /\ pc = "done"
    /\ entry = "create_order_data"
    /\ Len(order_rows) = 2
    /\ order_rows[1].name = order_rows[2].name
    /\ order_rows[1].date = order_rows[2].date
    /\ Len(df_orders[1]) = 1

\* The number of returned orders dated d.
OrdersOn(d) == Cardinality({k \in 1..Len(df_orders[1]) : df_orders[1][k].date = d})

\* C3: when len(customer_names) >= num_orders_per_day, the returned orders hold
\* exactly num_orders_per_day orders for each date from start_date to end_date
\* and none for any other date.
C3_ExactlyPerDay ==
    (df_orders # None
        /\ Len(customer_names) >= order_specs[1].num_orders_per_day) =>
        /\ \A d \in order_specs[1].start_date..order_specs[1].end_date :
               OrdersOn(d) = order_specs[1].num_orders_per_day
        /\ \A k \in 1..Len(df_orders[1]) :
               /\ order_specs[1].start_date <= df_orders[1][k].date
               /\ df_orders[1][k].date <= order_specs[1].end_date

\* C4: two runs of main that are passed the same seed value and the same specs
\* return the same output string.
C4_Deterministic ==
    (MainDone /\ prev # None /\ seed # NoSeed /\ prev[1].seed = seed
        /\ prev[1].customer_specs = customer_specs[1]
        /\ prev[1].order_specs = order_specs[1]) =>
        result[1] = prev[1].result

\* create_order_data was entered by the running call.
OrderCallEntered ==
    \/ pc \in {"ord_init", "ord_while", "ord_for", "ord_finish", "main_join"}
    \/ pc = "done" /\ entry # "create_customer_data"
    \/ pc = "error" /\ error.raised_in = "create_order_data"

\* C5: create_order_data called with fewer names than num_orders_per_day ends
\* with the ValueError of its first statement: no random draw was made, no
\* order row was recorded and nothing is returned.
C5_TooFewNamesFailsFirst ==
    (OrderCallEntered
        /\ Len(customer_names) < order_specs[1].num_orders_per_day) =>
        /\ \/ pc = "ord_init"
           \/ pc = "error" /\ error.kind = "ValueError"
        /\ ord_draws = 0
        /\ order_rows = <<>>
        /\ new_rows = <<>>
        /\ df_orders = None
        /\ result = None

\* C5 witness: inside main, the pool came out smaller than num_orders_per_day
\* and create_order_data raised.
C5_Witness ==
    /\ entry = "main"
    /\ pc = "error"
    /\ error.raised_in = "create_order_data"
    /\ Len(customer_names) = 1
    /\ order_specs[1].num_orders_per_day = 2

\* The running call is in create_customer_data, or ended in it.
InCustomerCall ==
    \/ pc \in {"cust_init", "cust_loop"}
    \/ pc = "error" /\ error.raised_in = "create_customer_data"

\* C6: create_customer_data makes no random draw with min_age > max_age, and
\* the body of create_order_data's date loop never runs with
\* start_date > end_date, however the caller came by the spec object.
C6_ValidatedBeforeGeneration ==
    /\ (InCustomerCall /\ customer_specs[1].min_age > customer_specs[1].max_age) =>
           \A k \in 1..Len(events) : events[k] # "draw"
    /\ pc = "ord_for" => order_specs[1].start_date <= order_specs[1].end_date

\* The six fields of a joined record, as text.
FieldsOf(r) ==
    <<r.name, IntToStr(r.age[1]), <<r.gender[1]>>, FormatDate(r.date), r.hairstyle,
      IntToStr(r.costs)>>

\* C7: parsing main's output (split on ';', then on ',') gives, per order, the
\* six fields of the record that was serialized, the name verbatim.
C7_RoundTrip ==
    MainDone =>
        OrdersLists(OrdersStrings(result[1]))
            = [k \in 1..Len(df_customers_orders) |-> FieldsOf(df_customers_orders[k])]

\* C8: in main every order names a customer of the pool, by exact string, and
\* every joined and serialized record carries that customer's age and gender.
C8_ReferentialIntegrity ==
    /\ (entry = "main" /\ df_orders # None) =>
           \A k \in 1..Len(df_orders[1]) :
               \E c \in 1..Len(df_customers) :
                   df_customers[c].name = df_orders[1][k].name
    /\ MainDone =>
           /\ Len(df_customers_orders) = Len(df_orders[1])
           /\ \A k \in 1..Len(df_customers_orders) :
                  /\ df_customers_orders[k].age # None
                  /\ df_customers_orders[k].gender # None
                  /\ \E c \in 1..Len(df_customers) :
                         /\ df_customers[c].name = df_customers_orders[k].name
                         /\ Holds(df_customers_orders[k].age, df_customers[c].age)
                         /\ Holds(df_customers_orders[k].gender, df_customers[c].gender)
                         /\ LET piece == Split(result[1], ";")[k]
                                head == df_customers_orders[k].name \o <<",">>
                                            \o IntToStr(df_customers[c].age) \o <<",">>
                                            \o <<df_customers[c].gender>> \o <<",">>
                            IN  SubSeq(piece, 1, Len(head)) = head

\* C8 witness: main returned records for two customers of different gender,
\* one of them stored with an injected space.
C8_Witness ==
    /\ MainDone
    /\ Len(df_customers_orders) = 2
    /\ df_customers_orders[1].gender # df_customers_orders[2].gender
    /\ \E k \in 1..2 : df_customers_orders[k].name[1] = " "

\* C9: main's string holds exactly one record per generated order, in ascending
\* (date, name) order, separated by single ';', with no trailing separator.
C9_OneRecordPerOrderSorted ==
    MainDone =>
        LET pieces == Split(result[1], ";") IN
        /\ Len(pieces) = Len(order_rows)
        /\ Len(df_customers_orders) = Len(order_rows)
        /\ \A k \in 1..Len(pieces) : pieces[k] = FormatRow(df_customers_orders[k])
        /\ \A o \in 1..Len(order_rows) :
               Cardinality({k \in 1..Len(df_customers_orders) :
                   /\ df_customers_orders[k].name = order_rows[o].name
                   /\ df_customers_orders[k].date = order_rows[o].date
                   /\ df_customers_orders[k].hairstyle = order_rows[o].hairstyle
                   /\ df_customers_orders[k].costs = order_rows[o].costs}) = 1
        /\ \A k \in 1..(Len(df_customers_orders) - 1) :
               DateNameLess(df_customers_orders[k], df_customers_orders[k + 1])
        /\ result[1][Len(result[1])] # ";"

\* C9 witness: main returned two records that were generated in descending
\* order (the later date, or the greater name, first).
C9_Witness ==
    /\ MainDone
    /\ Len(order_rows) = 2
    /\ DateNameLess(order_rows[2], order_rows[1])

\* C10: in a run of main with a seed, the `random` generator is seeded exactly
\* once, before the first draw, and never again.
C10_SeededOnce ==
    (MainDone /\ Truthy(seed)) =>
        /\ events[1] = "seed"
        /\ \A k \in 2..Len(events) : events[k] # "seed"

\* C11: every customer row stores its fabricated full name unchanged, or with
\* exactly one trailing space appended, or with exactly one leading space
\* prepended, never with both; every customer of the pool is such a row.
C11_OneInjectedSpaceAtMost ==
    /\ Len(fabricated) = Len(data_rows)
    /\ \A k \in 1..Len(data_rows) :
          /\ data_rows[k].name \in {fabricated[k],
                                    fabricated[k] \o <<" ">>,
                                    <<" ">> \o fabricated[k]}
          /\ data_rows[k].name # <<" ">> \o fabricated[k] \o <<" ">>
    /\ \A i \in 1..Len(df_customers) :
          \E k \in 1..Len(data_rows) : df_customers[i] = data_rows[k]

\* C11 witness: create_customer_data returned a pool of two customers, one
\* whose name got the trailing space and one whose name got the leading space.
C11_Witness ==
    /\ pc = "done"
    /\ entry = "create_customer_data"
    /\ Len(df_customers) = 2
    /\ \E j, k \in 1..Len(data_rows) :
          /\ data_rows[j].name = fabricated[j] \o <<" ">>
          /\ data_rows[k].name = <<" ">> \o fabricated[k]

\* The stored names of the generated data rows are pairwise distinct.
StoredNamesDistinct ==
    \A j, k \in 1..Len(data_rows) : j # k => data_rows[j].name # data_rows[k].name

\* C12 as stated: a returned pool was built in exactly num_customers
\* iterations and its size is num_customers minus the number of colliding
\* iterations, never more than num_customers.
C12_PoolSizeExact ==
    df_customers # <<>> =>
        /\ i_cust = customer_specs[1].num_customers
        /\ Len(df_customers) = customer_specs[1].num_customers - collisions
        /\ Len(df_customers) <= customer_specs[1].num_customers

\* C12 amended: every iteration either appends one data row or, when its
\* fabricated name was already generated, appends none and is not repeated; a
\* returned pool was built in exactly num_customers iterations, and its size is
\* at most num_customers minus the number of colliding iterations, with
\* equality exactly when unique() of line 112 had no repeated stored name to
\* drop.
C12_SkipWithoutRetry ==
    /\ Len(data_rows) = i_cust - collisions
    /\ customer_specs # None => i_cust <= customer_specs[1].num_customers
    /\ df_customers # <<>> =>
          LET n == customer_specs[1].num_customers IN
          /\ i_cust = n
          /\ Len(df_customers) <= n - collisions
          /\ Len(df_customers) = n - collisions <=> StoredNamesDistinct

\* C12 witness: create_customer_data returned a pool of one customer after two
\* iterations, the second of which fabricated the name of the first again.
C12_Witness ==
    /\ pc = "done"
    /\ entry = "create_customer_data"
    /\ customer_specs[1].num_customers = 2
    /\ i_cust = 2
    /\ collisions = 1
    /\ Len(df_customers) = 1

\* The customer of the order is of the working class: aged 18 to 65.
WorkingClass(order) == order.age >= 18 /\ order.age <= 65

\* C13: after Exercise 4.6, total_revenue_inflation_correction is the sum over
\* all orders of the original price, raised by 3.5% for customers aged 18 to
\* 65 and unchanged for juniors (under 18) and seniors (over 65).
C13_InflationOnlyWorkingClass ==
    total_revenue_inflation_correction # None =>
        total_revenue_inflation_correction[1] =
            SumSeq([k \in 1..Len(orders_casted) |->
                      IF WorkingClass(orders_casted[k])
                      THEN Times(original_prices[k], PerUnit + inflation)
                      ELSE original_prices[k]])

\* C14: when Exercises 4.6, 4.8 and 4.10 have run, orders_casted holds the
\* original prices, calculate_revenue(orders_casted) is the total_revenue of
\* Exercise 4.1, and the revenues of Exercises 4.8 and 4.10 are sums of the
\* original prices times the factor of each order.
C14_OriginalPricesKept ==
    script_pc = "ex_5_1" =>
        /\ PricesOf(orders_casted) = original_prices
        /\ calculate_revenue(orders_casted) = total_revenue[1]
        /\ total_revenue_discount[1] =
             SumSeq([k \in 1..Len(orders_casted) |->
                       Times(original_prices[k], DiscountFactor(orders_casted[k]))])
        /\ total_revenue_discount_no_wavy[1] =
             SumSeq([k \in 1..Len(orders_casted) |->
                       Times(original_prices[k],
                             DiscountFactorNoWavy(orders_casted[k]))])

====
